---- MODULE Spec2Model ----
(***************************************************************************)
(* A model of scraper.py: the market-hours gate, the quote fetch with its  *)
(* retry loop, the per-exchange ranking, the report render and the mail    *)
(* dispatch, and main's sequencing of them.                                *)
(*                                                                         *)
(* Python values are modelled as tagged records so that values of          *)
(* different Python types can sit in the same collection:                  *)
(*   [t |-> tag, n |-> integer payload, s |-> string payload]              *)
(* with tag one of "none" (None, also what dict.get gives for an absent    *)
(* key), "int", "float" (n holds the value in tenths), "bool" (n is 0 or   *)
(* 1), "inf", "nan" (the non-finite floats json accepts), "str" (s holds   *)
(* the characters, one per element).                                       *)
(***************************************************************************)
EXTENDS Integers, Sequences, FiniteSets, TLC

VARIABLES
    pc,          \* position of the run: which step executes next
    cfg,         \* the module-level configuration read from the environment
    ist_dt,      \* main's ist_dt / is_market_open_ist's dt
    gate_open,   \* value returned by is_market_open_ist
    retries,     \* yahoo_screener_most_active_india's retries argument
    attempt,     \* the loop variable of the retry loop
    resp,        \* the response of the latest HTTP request
    requests,    \* number of HTTP POSTs issued so far
    sleeps,      \* the time.sleep calls made so far, in tenths of a second
    quotes,      \* the value returned by the fetch
    suffix,      \* select_top_by_exchange's suffix argument
    top_n,       \* select_top_by_exchange's top_n argument
    rows,        \* the result of a select_top_by_exchange call
    nse,         \* main's nse
    bse,         \* main's bse
    html,        \* main's html
    dispatches,  \* number of send_email calls
    smtp_connections, \* number of smtplib.SMTP connections opened
    utc_now,     \* the reading of datetime.utcnow()
    size,        \* the size argument of the fetch (the page size requested)
    sent,        \* number of messages handed to server.sendmail
    outcome      \* how the run ended: "running", "returned" or the error raised

vars == <<pc, cfg, ist_dt, gate_open, retries, attempt, resp, requests, sleeps,
          quotes, suffix, top_n, rows, nse, bse, html, dispatches,
          smtp_connections, utc_now, size, sent, outcome>>

\* ------------------------------------------------------------------ bounds
MaxSecond == 2
MaxRetries == 3
MaxQuotes == 3
MaxTopN == 2

\* ------------------------------------------------------- program constants
DefaultRetries == 3
DefaultSmtpPort == 587
DefaultTopN == 10
DefaultSize == 120
MinSize == 60
SizeFactor == 6
IstOffsetMinutes == 330
SaturdayWeekday == 5
OpenHour == 9
OpenMinute == 15
CloseHour == 15
CloseMinute == 30

\* ------------------------------------------------------------ Python values
None == [t |-> "none", n |-> 0, s |-> <<>>]
PyInt(k) == [t |-> "int", n |-> k, s |-> <<>>]
PyFloat(tenths) == [t |-> "float", n |-> tenths, s |-> <<>>]
PyBool(b) == [t |-> "bool", n |-> IF b THEN 1 ELSE 0, s |-> <<>>]
PyInf == [t |-> "inf", n |-> 0, s |-> <<>>]
PyNaN == [t |-> "nan", n |-> 0, s |-> <<>>]
PyStr(chars) == [t |-> "str", n |-> 0, s |-> chars]

\* bool(v): None, 0, 0.0, False and "" are falsy, everything else is truthy
Truthy(v) ==
    CASE v.t = "none" -> FALSE
      [] v.t \in {"int", "float", "bool"} -> v.n # 0
      [] v.t = "str" -> Len(v.s) > 0
      [] OTHER -> TRUE

\* a or b
PyOr(a, b) == IF Truthy(a) THEN a ELSE b

\* isinstance(v, (int, float)); bool is a subclass of int
IsNumber(v) == v.t \in {"int", "float", "bool", "inf", "nan"}

\* int(v) for a finite number: truncation toward zero
IntOf(v) ==
    CASE v.t \in {"int", "bool"} -> v.n
      [] v.t = "float" -> IF v.n >= 0 THEN v.n \div 10 ELSE -((-v.n) \div 10)
      [] OTHER -> 0

\* str.endswith
EndsWith(chars, suf) ==
    /\ Len(chars) >= Len(suf)
    /\ SubSeq(chars, Len(chars) - Len(suf) + 1, Len(chars)) = suf

\* ------------------------------------------------------------ the time gate
Instants ==
    [weekday : 0..6, hour : 0..23, minute : 0..59, second : 0..MaxSecond]

\* datetime.time(h, m)
dtime(h, m) == [hour |-> h, minute |-> m, second |-> 0]

\* dt.time()
TimeOf(dt) == [hour |-> dt.hour, minute |-> dt.minute, second |-> dt.second]

\* a <= b on datetime.time: the fields compared in order
TimeLE(a, b) ==
    \/ a.hour < b.hour
    \/ a.hour = b.hour /\ a.minute < b.minute
    \/ a.hour = b.hour /\ a.minute = b.minute /\ a.second <= b.second

\* the gate with the closing instant itself excluded
is_market_open_ist_ExclusiveClose(dt) ==
    IF dt.weekday >= SaturdayWeekday
    THEN FALSE
    ELSE /\ TimeLE(dtime(OpenHour, OpenMinute), TimeOf(dt))
         /\ ~TimeLE(dtime(CloseHour, CloseMinute), TimeOf(dt))

is_market_open_ist(dt) ==
    IF dt.weekday >= SaturdayWeekday
    THEN FALSE
    ELSE /\ TimeLE(dtime(OpenHour, OpenMinute), TimeOf(dt))
         /\ TimeLE(TimeOf(dt), dtime(CloseHour, CloseMinute))

\* --------------------------------------------------------------- the quotes
\* One element of the quotes array. obj is FALSE for an element that is not a
\* JSON object; a field holds None when its key is absent (dict.get).
Quote(sym, rmv, adv) ==
    [obj |-> TRUE, symbol |-> sym, shortName |-> None, longName |-> None,
     regularMarketVolume |-> rmv, averageDailyVolume3Month |-> adv,
     regularMarketPrice |-> None, regularMarketChange |-> None,
     regularMarketChangePercent |-> None]

NotAnObject == [Quote(None, None, None) EXCEPT !.obj = FALSE]

\* The value the fetch hands to main: a list (items) or some other JSON value
\* (a string or an object of n characters or keys, a number or a boolean n).
QList(items) == [t |-> "list", n |-> 0, items |-> items]
QOther(tag, k) == [t |-> tag, n |-> k, items |-> <<>>]
EmptyList == QList(<<>>)

\* bool(quotes)
QTruthy(qv) ==
    CASE qv.t = "list" -> Len(qv.items) > 0
      [] qv.t \in {"none", "missing"} -> FALSE
      [] OTHER -> qv.n # 0

NS == <<".", "N", "S">>
BO == <<".", "B", "O">>

\* --------------------------------------------------- select_top_by_exchange
\* sym = q.get("symbol") or ""
SymOf(q) == PyOr(q.symbol, PyStr(<<>>))

UpperChar(c) ==
    CASE c = "n" -> "N" [] c = "s" -> "S" [] c = "b" -> "B" [] c = "o" -> "O"
      [] c = "t" -> "T" [] OTHER -> c

\* a suffix test that ignores case
Keeps_IgnoreCase(sym, suf) ==
    EndsWith([i \in 1..Len(sym.s) |-> UpperChar(sym.s[i])], suf)

\* sym.endswith(suffix), for sym a str
Keeps(sym, suf) == EndsWith(sym.s, suf)

\* vol = q.get("regularMarketVolume") or q.get("averageDailyVolume3Month") or 0
VolOf(q) == PyOr(PyOr(q.regularMarketVolume, q.averageDailyVolume3Month), PyInt(0))

\* the error the loop body raises on q, "none" if it raises nothing
RowError(q, suf) ==
    CASE ~q.obj -> "AttributeError"               \* q.get on a non-dict
      [] q.obj /\ SymOf(q).t # "str" -> "AttributeError"   \* sym.endswith
      [] q.obj /\ SymOf(q).t = "str" /\ Keeps(SymOf(q), suf) /\ VolOf(q).t = "inf"
            -> "OverflowError"                    \* int(inf)
      [] q.obj /\ SymOf(q).t = "str" /\ Keeps(SymOf(q), suf) /\ VolOf(q).t = "nan"
            -> "ValueError"                       \* int(nan)
      [] OTHER -> "none"

PassNumber(v) == IF IsNumber(v) THEN v ELSE None

\* the dict appended for a kept quote
RowOf(q) ==
    [symbol |-> SymOf(q).s,
     name |-> PyOr(PyOr(q.shortName, q.longName), SymOf(q)),
     volume |-> IF IsNumber(VolOf(q)) THEN IntOf(VolOf(q)) ELSE 0,
     price |-> PassNumber(q.regularMarketPrice),
     change |-> PassNumber(q.regularMarketChange),
     change_pct |-> PassNumber(q.regularMarketChangePercent)]

\* the for loop: the rows appended, or the first error raised
RECURSIVE BuildRows(_, _, _)
BuildRows(items, suf, acc) ==
    IF items = <<>> THEN [err |-> "none", rows |-> acc]
    ELSE LET q == Head(items) IN
         IF RowError(q, suf) # "none" THEN [err |-> RowError(q, suf), rows |-> <<>>]
         ELSE IF ~Keeps(SymOf(q), suf) THEN BuildRows(Tail(items), suf, acc)
         ELSE BuildRows(Tail(items), suf, Append(acc, RowOf(q)))

\* number of leading rows of a descending list that r goes after
RECURSIVE CountWhile(_, _, _)
CountWhile(rs, r, strict) ==
    IF rs = <<>> THEN 0
    ELSE IF (IF strict THEN Head(rs).volume > r.volume ELSE Head(rs).volume >= r.volume)
         THEN 1 + CountWhile(Tail(rs), r, strict)
         ELSE 0

InsertAt(rs, k, r) == SubSeq(rs, 1, k) \o <<r>> \o SubSeq(rs, k + 1, Len(rs))

\* a descending sort that puts a row before the earlier rows of equal volume
RECURSIVE SortByVolumeDesc_Unstable(_)
SortByVolumeDesc_Unstable(rs) ==
    IF rs = <<>> THEN <<>>
    ELSE LET front == SortByVolumeDesc_Unstable(SubSeq(rs, 1, Len(rs) - 1))
             r == rs[Len(rs)]
         IN InsertAt(front, CountWhile(front, r, TRUE), r)

\* rows.sort(key=lambda r: r["volume"], reverse=True): stable, descending
RECURSIVE SortByVolumeDesc(_)
SortByVolumeDesc(rs) ==
    IF rs = <<>> THEN <<>>
    ELSE LET front == SortByVolumeDesc(SubSeq(rs, 1, Len(rs) - 1))
             r == rs[Len(rs)]
         IN InsertAt(front, CountWhile(front, r, FALSE), r)

Min(a, b) == IF a <= b THEN a ELSE b
Max(a, b) == IF a >= b THEN a ELSE b

\* a slice that keeps one row too many
Slice_OffByOne(rs, k) == SubSeq(rs, 1, Min(k + 1, Len(rs)))

\* rows[:k]
Slice(rs, k) ==
    IF k >= 0 THEN SubSeq(rs, 1, Min(k, Len(rs)))
    ELSE SubSeq(rs, 1, Max(0, Len(rs) + k))

\* for q in quotes: a list gives its elements, a string its characters and an
\* object its keys (none of them dicts), a number or a boolean is not iterable
IterError(qv) == IF qv.t \in {"int", "bool", "float"} THEN "TypeError" ELSE "none"
IterItems(qv) ==
    IF qv.t = "list" THEN qv.items ELSE [i \in 1..qv.n |-> NotAnObject]

select_top_by_exchange(qv, suf, k) ==
    IF IterError(qv) # "none" THEN [err |-> IterError(qv), rows |-> <<>>]
    ELSE LET built == BuildRows(IterItems(qv), suf, <<>>) IN
         IF built.err # "none" THEN built
         ELSE [err |-> "none", rows |-> Slice(SortByVolumeDesc(built.rows), k)]

\* ------------------------------------------------------------ the quote fetch
\* A response body, by the shape of the path finance.result[0].quotes:
\*   json    "unparsable" | "notdict" | "dict"          what resp.json() gives
\*   finance "missing" | "null" | "notdict" | "dict"    data["finance"]
\*   result  "missing" | "null" | "empty" | "notlist" | "list_null" | "list_dict"
\*   quotes  the value under "quotes" (t = "missing" when the key is absent)
Body(j, f, r, q) == [json |-> j, finance |-> f, result |-> r, quotes |-> q]

HttpResponse(status, body) == [kind |-> "http", status |-> status, body |-> body]
Raised(what) ==
    [kind |-> what, status |-> 0,
     body |-> Body("unparsable", "missing", "missing", QOther("missing", 0))]

\* the error raised by
\*   data = resp.json()
\*   data.get("finance", {}).get("result", [{}])[0].get("quotes", [])
ParseError(b) ==
    CASE b.json = "unparsable" -> "JSONDecodeError"
      [] b.json = "notdict" -> "AttributeError"
      [] b.json = "dict" /\ b.finance = "missing" -> "none"
      [] b.json = "dict" /\ b.finance \in {"null", "notdict"} -> "AttributeError"
      [] b.json = "dict" /\ b.finance = "dict" /\ b.result = "missing" -> "none"
      [] b.json = "dict" /\ b.finance = "dict" /\ b.result \in {"null", "notlist"}
            -> "TypeError"
      [] b.json = "dict" /\ b.finance = "dict" /\ b.result = "empty" -> "IndexError"
      [] b.json = "dict" /\ b.finance = "dict" /\ b.result = "list_null"
            -> "AttributeError"
      [] OTHER -> "none"

\* the value of the path, the defaults of the .get calls applied
ParseValue(b) ==
    IF b.finance = "missing" \/ b.result = "missing" \/ b.quotes.t = "missing"
    THEN EmptyList
    ELSE b.quotes

\* ... or []
ParseReturn(b) == IF QTruthy(ParseValue(b)) THEN ParseValue(b) ELSE EmptyList

\* ----------------------------------------------------- the inputs enumerated
Sym(chars) == PyStr(chars)
Q_TCS == Quote(Sym(<<"T", "C", "S", ".", "N", "S">>), PyInt(500), None)
Q_INFY == Quote(Sym(<<"I", "N", "F", "Y", ".", "N", "S">>), PyInt(900), None)
Q_X == Quote(Sym(<<"X", ".", "B", "O">>), PyInt(100), None)
Q_REL == [Quote(Sym(<<"R", "E", "L", ".", "N", "S">>), PyInt(500), PyInt(100))
            EXCEPT !.shortName = PyStr(<<"R">>), !.regularMarketPrice = PyFloat(12345)]
\* regularMarketVolume present and 0, a 3-month average beside it
Q_ZERO == Quote(Sym(<<"A", ".", "N", "S">>), PyInt(0), PyInt(500))
\* regularMarketVolume present and not a number, a 3-month average beside it
Q_TEXT == Quote(Sym(<<"B", ".", "N", "S">>), PyStr(<<"n", "a">>), PyInt(900))
\* neither volume field
Q_NOVOL == Quote(Sym(<<"C", ".", "B", "O">>), None, None)
\* only the 3-month average
Q_AVG == Quote(Sym(<<"D", ".", "B", "O">>), None, PyInt(100))
\* a lower-case suffix
Q_LOWER == Quote(Sym(<<"t", ".", "n", "s">>), PyInt(900), None)
\* no symbol
Q_NOSYM == Quote(None, PyInt(900), None)
\* a symbol shorter than the suffix
Q_SHORT == Quote(Sym(<<"N", "S">>), PyInt(900), None)
\* a fractional volume, 900.7
Q_FRAC == Quote(Sym(<<"F", ".", "B", "O">>), PyFloat(9007), None)
\* a symbol that is not a string
Q_NUMSYM == Quote(PyInt(5), PyInt(900), None)
\* a volume that is not finite
Q_INF == Quote(Sym(<<"E", ".", "N", "S">>), PyInf, None)
Q_NAN == Quote(Sym(<<"G", ".", "B", "O">>), None, PyNaN)

WellFormedQuotes ==
    {Q_TCS, Q_INFY, Q_X, Q_REL, Q_ZERO, Q_TEXT, Q_NOVOL, Q_AVG, Q_LOWER, Q_NOSYM,
     Q_SHORT, Q_FRAC}
QuoteUniverse == WellFormedQuotes \cup {Q_NUMSYM, Q_INF, Q_NAN, NotAnObject}

\* the quotes the lists of a select_top_by_exchange call are built from
SelectUniverse ==
    {Q_TCS, Q_INFY, Q_X, Q_REL, Q_ZERO, Q_TEXT, Q_NOVOL, Q_AVG, Q_LOWER, Q_NOSYM,
     Q_SHORT, Q_NUMSYM}

\* the scenario of the specification's section 8
Scenario == <<Q_TCS, Q_INFY, Q_X>>

\* the quote lists a response may carry
FetchedLists == {Scenario} \cup {<<q>> : q \in QuoteUniverse} \cup {<<Q_TCS, Q_REL>>}

\* the values a response may hold under "quotes"
QuotesValues ==
    {QList(l) : l \in FetchedLists}
    \cup {EmptyList, QOther("missing", 0), QOther("none", 0),
          QOther("str", 0), QOther("str", 3), QOther("int", 0), QOther("int", 5),
          QOther("dict", 0), QOther("dict", 1), QOther("bool", 0), QOther("bool", 1)}

Bodies ==
    {Body("dict", "dict", "list_dict", q) : q \in QuotesValues}
    \cup {Body("dict", "dict", r, EmptyList) :
            r \in {"missing", "null", "empty", "notlist", "list_null"}}
    \cup {Body("dict", f, "missing", EmptyList) : f \in {"missing", "null", "notdict"}}
    \cup {Body(j, "missing", "missing", EmptyList) : j \in {"unparsable", "notdict"}}

Responses ==
    {HttpResponse(200, b) : b \in Bodies}
    \cup {HttpResponse(s, Body("unparsable", "missing", "missing", EmptyList)) :
            s \in {500, 404}}
    \cup {Raised(e) : e \in {"Timeout", "ConnectionError"}}

NoResponse == Raised("none")

\* one pass of the loop body up to the sleep: the POST and the handling of its
\* response; on a 200 whose body parses the function returns
FetchRequest ==
    /\ pc = "fetch_loop"
    /\ attempt <= retries
    /\ \E r \in Responses :
        /\ resp' = r
        /\ requests' = requests + 1
        /\ IF r.kind = "http" /\ r.status = 200 /\ ParseError(r.body) = "none"
           THEN /\ quotes' = ParseReturn(r.body)
                /\ pc' = "fetch_ret"
           ELSE /\ quotes' = quotes
                /\ pc' = "fetch_sleep"
    /\ UNCHANGED <<cfg, ist_dt, gate_open, retries, attempt, sleeps, suffix, top_n,
                   rows, nse, bse, html, dispatches, smtp_connections, utc_now,
                   size, sent, outcome>>

\* time.sleep(1.5 * attempt), in tenths of a second, and the next iteration
SleepTenths(a) == 15 * a

FetchSleep ==
    /\ pc = "fetch_sleep"
    /\ sleeps' = Append(sleeps, SleepTenths(attempt))
    /\ attempt' = attempt + 1
    /\ pc' = "fetch_loop"
    /\ UNCHANGED <<cfg, ist_dt, gate_open, retries, resp, requests, quotes, suffix,
                   top_n, rows, nse, bse, html, dispatches, smtp_connections,
                   utc_now, size, sent, outcome>>

\* the loop ran out of attempts: return []
FetchExhausted ==
    /\ pc = "fetch_loop"
    /\ attempt > retries
    /\ quotes' = EmptyList
    /\ pc' = "fetch_ret"
    /\ UNCHANGED <<cfg, ist_dt, gate_open, retries, attempt, resp, requests, sleeps,
                   suffix, top_n, rows, nse, bse, html, dispatches,
                   smtp_connections, utc_now, size, sent, outcome>>

\* --------------------------------------------------------- the configuration
\* The environment: a variable is None when unset, else a str. SMTP_PORT and
\* TOP_N hold the integer their decimal text denotes (PyInt).
getenv(v, default) == IF v = None THEN default ELSE v

RECURSIVE SplitComma(_, _, _)
\* s.split(",")
SplitComma(chars, cur, acc) ==
    IF chars = <<>> THEN Append(acc, cur)
    ELSE IF Head(chars) = "," THEN SplitComma(Tail(chars), <<>>, Append(acc, cur))
    ELSE SplitComma(Tail(chars), Append(cur, Head(chars)), acc)

RECURSIVE LStrip(_)
LStrip(chars) ==
    IF chars # <<>> /\ Head(chars) = " " THEN LStrip(Tail(chars)) ELSE chars

RECURSIVE RStrip(_)
RStrip(chars) ==
    IF chars # <<>> /\ chars[Len(chars)] = " "
    THEN RStrip(SubSeq(chars, 1, Len(chars) - 1)) ELSE chars

\* e.strip()
Strip(chars) == RStrip(LStrip(chars))

\* [e.strip() for e in parts if e.strip()]
RECURSIVE StripNonEmpty(_)
StripNonEmpty(parts) ==
    IF parts = <<>> THEN <<>>
    ELSE IF Strip(Head(parts)) = <<>> THEN StripNonEmpty(Tail(parts))
    ELSE <<Strip(Head(parts))>> \o StripNonEmpty(Tail(parts))

LowerChar(c) ==
    CASE c = "T" -> "t" [] c = "R" -> "r" [] c = "U" -> "u" [] c = "E" -> "e"
      [] c = "Y" -> "y" [] c = "S" -> "s" [] c = "N" -> "n" [] c = "O" -> "o"
      [] OTHER -> c

\* s.lower()
Lower(chars) == [i \in 1..Len(chars) |-> LowerChar(chars[i])]

TrueWords == {<<"1">>, <<"t", "r", "u", "e">>, <<"y", "e", "s">>, <<"y">>}

\* lines 22-29
LoadConfig(env) ==
    LET user == getenv(env.SMTP_USER, PyStr(<<>>)) IN
    [SMTP_HOST |-> getenv(env.SMTP_HOST, PyStr(<<>>)).s,
     SMTP_PORT |-> getenv(env.SMTP_PORT, PyInt(DefaultSmtpPort)).n,
     SMTP_USER |-> user.s,
     SMTP_PASS |-> getenv(env.SMTP_PASS, PyStr(<<>>)).s,
     FROM_EMAIL |-> getenv(env.FROM_EMAIL, PyOr(user, PyStr(<<>>))).s,
     TO_EMAILS |-> StripNonEmpty(
                     SplitComma(getenv(env.TO_EMAILS, PyStr(<<>>)).s, <<>>, <<>>)),
     TOP_N |-> getenv(env.TOP_N, PyInt(DefaultTopN)).n,
     ENFORCE_MARKET_HOURS |->
        Lower(getenv(env.ENFORCE_MARKET_HOURS, PyStr(<<"t", "r", "u", "e">>)).s)
            \in TrueWords]

MailEnv(h, p, u, w, f, to) ==
    [SMTP_HOST |-> h, SMTP_PORT |-> p, SMTP_USER |-> u, SMTP_PASS |-> w,
     FROM_EMAIL |-> f, TO_EMAILS |-> to]

E_HOST == PyStr(<<"h">>)
E_USER == PyStr(<<"u">>)
E_PASS == PyStr(<<"p">>)
E_FROM == PyStr(<<"f">>)
E_TO == PyStr(<<"a", ",", " ", "b">>)
E_BLANKS == PyStr(<<" ", ",", " ">>)

\* the mail settings enumerated: the complete one, and each setting missing
MailEnvs ==
    {MailEnv(E_HOST, None, E_USER, E_PASS, None, E_TO),
     MailEnv(E_HOST, None, E_USER, E_PASS, E_FROM, E_TO),
     MailEnv(None, None, E_USER, E_PASS, None, E_TO),
     MailEnv(E_HOST, PyInt(0), E_USER, E_PASS, None, E_TO),
     MailEnv(E_HOST, None, None, E_PASS, None, E_TO),
     MailEnv(E_HOST, None, None, E_PASS, E_FROM, E_TO),
     MailEnv(E_HOST, None, E_USER, None, None, E_TO),
     MailEnv(E_HOST, None, E_USER, E_PASS, PyStr(<<>>), E_TO),
     MailEnv(E_HOST, None, E_USER, E_PASS, None, None),
     MailEnv(E_HOST, None, E_USER, E_PASS, None, E_BLANKS),
     MailEnv(None, None, None, None, None, None)}

Envs ==
    {[SMTP_HOST |-> m.SMTP_HOST, SMTP_PORT |-> m.SMTP_PORT, SMTP_USER |-> m.SMTP_USER,
      SMTP_PASS |-> m.SMTP_PASS, FROM_EMAIL |-> m.FROM_EMAIL, TO_EMAILS |-> m.TO_EMAILS,
      TOP_N |-> n, ENFORCE_MARKET_HOURS |-> e] :
        m \in MailEnvs,
        n \in {None} \cup {PyInt(k) : k \in 1..MaxTopN},
        e \in {None, PyStr(<<"T", "R", "U", "E">>), PyStr(<<"n", "o">>)}}

Configs == {LoadConfig(env) : env \in Envs}

\* ------------------------------------------------------------------ the clock
\* datetime.utcnow() + timedelta(hours=5, minutes=30)
now_ist_dt(utc) ==
    LET total == utc.hour * 60 + utc.minute + IstOffsetMinutes IN
    [weekday |-> (utc.weekday + total \div 1440) % 7,
     hour |-> (total % 1440) \div 60,
     minute |-> total % 60,
     second |-> utc.second]

At(wd, h, m, s) == [weekday |-> wd, hour |-> h, minute |-> m, second |-> s]

\* the clock readings enumerated for a run of main (UTC)
UtcInstants ==
    {At(2, 3, 44, 0), At(2, 3, 45, 0), At(2, 4, 30, 0), At(2, 10, 0, 0),
     At(2, 10, 0, 1), At(2, 10, 30, 0), At(4, 23, 0, 0), At(5, 4, 30, 0),
     At(6, 23, 0, 0), At(0, 4, 30, 0)}

\* ----------------------------------------------------------------- the render
\* a cell: "-" for an absent number, else the number to two decimals
Cell(v) == IF v = None THEN "-" ELSE "number"

\* tbl(rows, title): a notice for an empty list, else one numbered line per row
tbl(rs) ==
    IF rs = <<>> THEN [kind |-> "nodata", lines |-> <<>>]
    ELSE [kind |-> "table",
          lines |-> [i \in 1..Len(rs) |->
                        [idx |-> i, symbol |-> rs[i].symbol, name |-> rs[i].name,
                         price |-> Cell(rs[i].price), change |-> Cell(rs[i].change),
                         change_pct |-> Cell(rs[i].change_pct),
                         volume |-> rs[i].volume]]]

build_email_html(nse_rows, bse_rows) ==
    [nse_count |-> Len(nse_rows), nse |-> tbl(nse_rows),
     bse_count |-> Len(bse_rows), bse |-> tbl(bse_rows)]

NoHtml == build_email_html(<<>>, <<>>)

\* ------------------------------------------------------------------- the mail
\* the test of line 127 with SMTP_PASS left out
ConfigComplete_NoPass(c) ==
    /\ c.SMTP_HOST # <<>>
    /\ c.SMTP_PORT # 0
    /\ c.SMTP_USER # <<>>
    /\ c.FROM_EMAIL # <<>>
    /\ c.TO_EMAILS # <<>>

\* SMTP_HOST and SMTP_PORT and SMTP_USER and SMTP_PASS and FROM_EMAIL and TO_EMAILS
ConfigComplete(c) ==
    /\ c.SMTP_HOST # <<>>
    /\ c.SMTP_PORT # 0
    /\ c.SMTP_USER # <<>>
    /\ c.SMTP_PASS # <<>>
    /\ c.FROM_EMAIL # <<>>
    /\ c.TO_EMAILS # <<>>

\* how the SMTP session goes: it succeeds, or one of its calls raises
SmtpResults == {"ok", "connect", "starttls", "login", "sendmail"}

\* send_email(subject, html), called by main as its last statement
MainSend ==
    /\ pc = "send"
    /\ dispatches' = dispatches + 1
    /\ pc' = "done"
    /\ IF ~ConfigComplete(cfg)
       THEN /\ outcome' = "RuntimeError"
            /\ UNCHANGED <<smtp_connections, sent>>
       ELSE \E r \in SmtpResults :
            /\ smtp_connections' = smtp_connections + 1
            /\ sent' = IF r = "ok" THEN sent + 1 ELSE sent
            /\ outcome' = IF r = "ok" THEN "returned" ELSE "SMTPException"
    /\ UNCHANGED <<cfg, ist_dt, gate_open, retries, attempt, resp, requests, sleeps,
                   quotes, suffix, top_n, rows, nse, bse, html, utc_now, size>>

\* ------------------------------------------------------------------- main
\* lines 143-149: the clock, the gate and the call of the fetch
MainGate ==
    /\ pc = "main"
    /\ ist_dt' = now_ist_dt(utc_now)
    /\ gate_open' = IF cfg.ENFORCE_MARKET_HOURS
                    THEN is_market_open_ist(ist_dt') ELSE gate_open
    /\ IF cfg.ENFORCE_MARKET_HOURS /\ ~is_market_open_ist(ist_dt')
       THEN /\ outcome' = "returned"
            /\ pc' = "done"
            /\ UNCHANGED <<retries, attempt, size>>
       ELSE /\ size' = Max(cfg.TOP_N * SizeFactor, MinSize)
            /\ retries' = DefaultRetries
            /\ attempt' = 1
            /\ pc' = "fetch_loop"
            /\ UNCHANGED outcome
    /\ UNCHANGED <<cfg, resp, requests, sleeps, quotes, suffix, top_n, rows, nse,
                   bse, html, dispatches, smtp_connections, utc_now, sent>>

\* lines 150-158: the empty-result exit, the two rankings and the render
MainRank ==
    /\ pc = "fetch_ret"
    /\ LET n == select_top_by_exchange(quotes, NS, cfg.TOP_N)
           b == select_top_by_exchange(quotes, BO, cfg.TOP_N)
       IN
       IF ~QTruthy(quotes)
       THEN /\ outcome' = "returned"
            /\ pc' = "done"
            /\ UNCHANGED <<nse, bse, html>>
       ELSE IF n.err # "none"
       THEN /\ outcome' = n.err
            /\ pc' = "done"
            /\ UNCHANGED <<nse, bse, html>>
       ELSE IF b.err # "none"
       THEN /\ outcome' = b.err
            /\ pc' = "done"
            /\ nse' = n.rows
            /\ UNCHANGED <<bse, html>>
       ELSE /\ nse' = n.rows
            /\ bse' = b.rows
            /\ html' = build_email_html(n.rows, b.rows)
            /\ pc' = "send"
            /\ UNCHANGED outcome
    /\ UNCHANGED <<cfg, ist_dt, gate_open, retries, attempt, resp, requests, sleeps,
                   quotes, suffix, top_n, rows, dispatches, smtp_connections,
                   utc_now, size, sent>>

\* ------------------------------------------------------- the specifications
Idle ==
    /\ gate_open = FALSE
    /\ resp = NoResponse
    /\ requests = 0
    /\ sleeps = <<>>
    /\ rows = <<>>
    /\ nse = <<>>
    /\ bse = <<>>
    /\ html = NoHtml
    /\ dispatches = 0
    /\ smtp_connections = 0
    /\ sent = 0
    /\ outcome = "running"

DefaultConfig == LoadConfig(
    [SMTP_HOST |-> None, SMTP_PORT |-> None, SMTP_USER |-> None, SMTP_PASS |-> None,
     FROM_EMAIL |-> None, TO_EMAILS |-> None, TOP_N |-> None,
     ENFORCE_MARKET_HOURS |-> None])

\* a run of main
Init ==
    /\ pc = "main"
    /\ cfg \in Configs
    /\ utc_now \in UtcInstants
    /\ ist_dt = At(0, 0, 0, 0)
    /\ retries = 0
    /\ attempt = 0
    /\ size = 0
    /\ quotes = EmptyList
    /\ suffix = NS
    /\ top_n = cfg.TOP_N
    /\ Idle

Next == MainGate \/ FetchRequest \/ FetchSleep \/ FetchExhausted \/ MainRank \/ MainSend

Spec == Init /\ [][Next]_vars

\* a call of yahoo_screener_most_active_india(size, retries, timeout)
InitFetch ==
    /\ pc = "fetch_loop"
    /\ cfg = DefaultConfig
    /\ utc_now = At(0, 0, 0, 0)
    /\ ist_dt = At(0, 0, 0, 0)
    /\ retries \in 0..MaxRetries
    /\ attempt = 1
    /\ size = DefaultSize
    /\ quotes = EmptyList
    /\ suffix = NS
    /\ top_n = cfg.TOP_N
    /\ Idle

NextFetch == FetchRequest \/ FetchSleep \/ FetchExhausted

SpecFetch == InitFetch /\ [][NextFetch]_vars

\* a call of select_top_by_exchange(quotes, suffix, top_n)
RECURSIVE SeqsUpTo(_, _)
SeqsUpTo(S, k) ==
    IF k = 0 THEN {<<>>}
    ELSE SeqsUpTo(S, k - 1)
         \cup {Append(l, x) : l \in {m \in SeqsUpTo(S, k - 1) : Len(m) = k - 1}, x \in S}

InitSelect ==
    /\ pc = "select_call"
    /\ cfg = DefaultConfig
    /\ utc_now = At(0, 0, 0, 0)
    /\ ist_dt = At(0, 0, 0, 0)
    /\ retries = 0
    /\ attempt = 0
    /\ size = 0
    /\ quotes \in {QList(l) : l \in SeqsUpTo(SelectUniverse, MaxQuotes)}
    /\ suffix \in {NS, BO}
    /\ top_n \in 1..MaxTopN
    /\ Idle

SelectCall ==
    /\ pc = "select_call"
    /\ LET r == select_top_by_exchange(quotes, suffix, top_n) IN
       /\ rows' = r.rows
       /\ outcome' = IF r.err = "none" THEN "returned" ELSE r.err
    /\ pc' = "select_ret"
    /\ UNCHANGED <<cfg, ist_dt, gate_open, retries, attempt, resp, requests, sleeps,
                   quotes, suffix, top_n, nse, bse, html, dispatches,
                   smtp_connections, utc_now, size, sent>>

NextSelect == SelectCall

SpecSelect == InitSelect /\ [][NextSelect]_vars

\* a call of is_market_open_ist(dt)
InitGate ==
    /\ pc = "gate_call"
    /\ cfg = DefaultConfig
    /\ utc_now = At(0, 0, 0, 0)
    /\ ist_dt \in Instants
    /\ retries = 0
    /\ attempt = 0
    /\ size = 0
    /\ quotes = EmptyList
    /\ suffix = NS
    /\ top_n = cfg.TOP_N
    /\ Idle

GateCall ==
    /\ pc = "gate_call"
    /\ gate_open' = is_market_open_ist(ist_dt)
    /\ outcome' = "returned"
    /\ pc' = "gate_ret"
    /\ UNCHANGED <<cfg, ist_dt, retries, attempt, resp, requests, sleeps, quotes,
                   suffix, top_n, rows, nse, bse, html, dispatches,
                   smtp_connections, utc_now, size, sent>>

NextGate == GateCall

SpecGate == InitGate /\ [][NextGate]_vars

\* ------------------------------------------------------------------ claims
\* what the claims mean by their words, written apart from the model above

\* seconds since midnight of an instant
SecondOfDay(dt) == dt.hour * 3600 + dt.minute * 60 + dt.second

\* Monday to Friday, within [09:15:00, 15:30:00]
InTradingWindow(dt) ==
    /\ dt.weekday \in 0..4
    /\ SecondOfDay(dt) >= 9 * 3600 + 15 * 60
    /\ SecondOfDay(dt) <= 15 * 3600 + 30 * 60

\* the symbol of q is a string whose last three characters are exactly suf
HasSuffix(chars, suf) ==
    /\ Len(chars) >= 3
    /\ <<chars[Len(chars) - 2], chars[Len(chars) - 1], chars[Len(chars)]>> = suf

QuoteHasSuffix(q, suf) == q.obj /\ q.symbol.t = "str" /\ HasSuffix(q.symbol.s, suf)

\* the volume the specification gives a quote
ClaimedVolume(q) ==
    IF q.regularMarketVolume.t \in {"int", "float"} THEN IntOf(q.regularMarketVolume)
    ELSE IF q.averageDailyVolume3Month.t \in {"int", "float"}
         THEN IntOf(q.averageDailyVolume3Month)
    ELSE 0

\* one of the six mail settings is missing or empty
MailSettingMissing ==
    \/ cfg.SMTP_HOST = <<>>
    \/ cfg.SMTP_PORT = 0
    \/ cfg.SMTP_USER = <<>>
    \/ cfg.SMTP_PASS = <<>>
    \/ cfg.FROM_EMAIL = <<>>
    \/ cfg.TO_EMAILS = <<>>

\* the run passes the gate: enforcement is off or the instant is in the window
GatePasses == ~cfg.ENFORCE_MARKET_HOURS \/ InTradingWindow(now_ist_dt(utc_now))

\* C1: when main has ended, send_email was called iff the gate let the run pass
\* and the fetch returned a non-empty result; it was called at most once; every
\* run without a dispatch returned normally; a run the gate closed made no
\* HTTP request.
C1_DispatchIffGateAndData ==
    pc = "done" =>
        /\ dispatches <= 1
        /\ (dispatches = 1) <=> (GatePasses /\ QTruthy(quotes))
        /\ (dispatches = 0 => outcome = "returned")
        /\ (~GatePasses => requests = 0)

\* C2: whatever the endpoint answers, main ends abnormally only with the
\* configuration error or a mail-submission error, both raised by send_email.
C2_OnlyDispatchErrors ==
    pc = "done" =>
        /\ outcome \in {"returned", "RuntimeError", "SMTPException"}
        /\ (outcome # "returned" => dispatches = 1)

\* C3 as stated: with a mail setting missing no SMTP connection is opened, and no
\* HTTP request has been issued when the configuration error surfaces.
C3_NoNetworkBeforeConfigError ==
    MailSettingMissing =>
        /\ smtp_connections = 0
        /\ (outcome = "RuntimeError" => requests = 0)

\* C3 as amended: with a mail setting missing, no SMTP connection is ever opened
\* and no message is submitted; a run that reaches send_email ends with the
\* configuration error, and by then the fetch has issued its HTTP requests (at
\* least one).
C3_ConfigErrorBeforeSmtp ==
    MailSettingMissing =>
        /\ smtp_connections = 0
        /\ sent = 0
        /\ (dispatches > 0 => outcome = "RuntimeError")
        /\ (outcome = "RuntimeError" => dispatches = 1 /\ requests >= 1)

C3_Witness ==
    /\ pc = "done"
    /\ outcome = "RuntimeError"
    /\ cfg.SMTP_PASS = <<>>
    /\ cfg.SMTP_HOST # <<>> /\ cfg.SMTP_USER # <<>> /\ cfg.TO_EMAILS # <<>>
    /\ requests >= 1
    /\ smtp_connections = 0

\* C4: when every attempt failed, the fetch made exactly retries requests and
\* retries - 1 sleeps, the k-th of 1.5 * k seconds, and returned the empty list.
C4_SleepsOnlyBetweenAttempts ==
    (pc = "fetch_ret" /\ retries >= 1 /\ attempt > retries) =>
        /\ requests = retries
        /\ Len(sleeps) = retries - 1
        /\ \A k \in 1..Len(sleeps) : sleeps[k] = 15 * k
        /\ quotes = EmptyList

\* the path finance.result[0].quotes of a body is missing or malformed
PathMalformed(b) ==
    \/ b.json # "dict"
    \/ b.finance # "dict"
    \/ b.result # "list_dict"
    \/ b.quotes.t # "list"

\* C5: the fetch returns after at most retries requests, and what it returns for
\* a response whose quotes path is missing or malformed is the empty sequence.
C5_MalformedGivesEmpty ==
    pc = "fetch_ret" =>
        /\ requests <= retries
        /\ (PathMalformed(resp.body) => quotes = EmptyList)

\* C6: the volumes of the rows are the volumes the rule gives the kept quotes:
\* regularMarketVolume if numeric (0 included), else averageDailyVolume3Month if
\* numeric, else 0. Stated for the calls that keep every matching quote.
C6_VolumeRule ==
    (pc = "select_ret" /\ outcome = "returned") =>
        LET kept == {j \in 1..Len(quotes.items) : QuoteHasSuffix(quotes.items[j], suffix)}
        IN Cardinality(kept) = Len(rows) =>
            \A v \in {ClaimedVolume(quotes.items[j]) : j \in kept}
                    \cup {rows[i].volume : i \in 1..Len(rows)} :
                Cardinality({i \in 1..Len(rows) : rows[i].volume = v})
                = Cardinality({j \in kept : ClaimedVolume(quotes.items[j]) = v})

\* C7: the result has at most top_n rows and each row's volume is at least the
\* volume of the row after it.
C7_BoundedAndSorted ==
    (pc = "select_ret" /\ outcome = "returned") =>
        /\ Len(rows) <= top_n
        /\ \A i \in 1..(Len(rows) - 1) : rows[i].volume >= rows[i + 1].volume

C7_Witness ==
    /\ pc = "select_ret"
    /\ quotes = QList(<<Q_REL, Q_TCS, Q_INFY>>)
    /\ suffix = NS
    /\ top_n = 1
    /\ Len(rows) = 1
    /\ rows[1].volume = 900

\* the place a stable descending sort gives the p-th of the rows ks
StableRank(ks, p) ==
    1 + Cardinality({q \in 1..Len(ks) : ks[q].volume > ks[p].volume})
      + Cardinality({q \in 1..(p - 1) : ks[q].volume = ks[p].volume})

\* C8: rows of equal volume keep their input order, and of tied rows at the
\* cut-off the earlier ones are kept: with the rows of the matching quotes
\* taken in input order, each one whose stable rank is within top_n sits at
\* that rank, and the result holds nothing else.
C8_StableOrder ==
    (pc = "select_ret" /\ outcome = "returned") =>
        LET kept == BuildRows(quotes.items, suffix, <<>>).rows IN
        /\ Len(rows) = Min(top_n, Len(kept))
        /\ \A p \in 1..Len(kept) :
                StableRank(kept, p) <= top_n => rows[StableRank(kept, p)] = kept[p]

C8_Witness ==
    /\ pc = "select_ret"
    /\ quotes = QList(<<Q_REL, Q_TCS, Q_ZERO>>)
    /\ suffix = NS
    /\ top_n = 2
    /\ rows = <<RowOf(Q_REL), RowOf(Q_TCS)>>

\* C9: the gate reports open exactly for the Monday-to-Friday instants within
\* [09:15, 15:30]; Saturday and Sunday are closed, Wednesday 09:15 and 10:00
\* are open, Wednesday 16:00 is closed.
C9_GateWindow ==
    pc = "gate_ret" =>
        /\ gate_open <=> InTradingWindow(ist_dt)
        /\ (ist_dt.weekday \in {5, 6} => ~gate_open)
        /\ (ist_dt \in {At(2, 9, 15, 0), At(2, 10, 0, 0)} => gate_open)
        /\ (ist_dt = At(2, 16, 0, 0) => ~gate_open)

C9_Witness ==
    /\ pc = "gate_ret"
    /\ ist_dt = At(2, 15, 30, 0)
    /\ gate_open

\* the symbols of a list of rows
Symbols(rs) == [i \in 1..Len(rs) |-> rs[i].symbol]

OtherSuffix == IF suffix = NS THEN BO ELSE NS

\* C10: every row's symbol ends with exactly the requested suffix, so no quote
\* without it (or without a symbol) is in the result; no symbol is in the lists
\* of both suffixes; and the scenario gives NSE = [INFY.NS, TCS.NS], BSE = [X.BO].
C10_OnlyMatchingSymbols ==
    (pc = "select_ret" /\ outcome = "returned") =>
        /\ \A i \in 1..Len(rows) :
            /\ HasSuffix(rows[i].symbol, suffix)
            /\ \E j \in 1..Len(quotes.items) :
                /\ QuoteHasSuffix(quotes.items[j], suffix)
                /\ quotes.items[j].symbol.s = rows[i].symbol
        /\ LET other == select_top_by_exchange(quotes, OtherSuffix, top_n).rows IN
           \A i \in 1..Len(rows) : \A r \in 1..Len(other) :
                other[r].symbol # rows[i].symbol
        /\ (quotes = QList(Scenario) /\ top_n = 2 /\ suffix = NS =>
                Symbols(rows) = <<Q_INFY.symbol.s, Q_TCS.symbol.s>>)
        /\ (quotes = QList(Scenario) /\ top_n = 2 /\ suffix = BO =>
                Symbols(rows) = <<Q_X.symbol.s>>)

C10_Witness ==
    /\ pc = "select_ret"
    /\ quotes = QList(<<Q_LOWER, Q_TCS, Q_X>>)
    /\ suffix = NS
    /\ top_n = 2
    /\ Symbols(rows) = <<Q_TCS.symbol.s>>

====
